---- MODULE Spec2Model ----
(***************************************************************************)
(* Model of wormhole-buddy ("coo"): the emitter registry and address       *)
(* resolver (src/common.rs), the guardian query URL, the VAA parser and    *)
(* the payload decoders (src/vaa.rs), and the `vaa query` / `vaa decode`   *)
(* commands (src/main.rs).                                                 *)
(*                                                                         *)
(* Strings are sequences of one-character strings, bytes are 0..255, and   *)
(* a Rust call's outcome is a record [tag, val] with tag "Ok", "Err" or    *)
(* "Panic" (an unwrap, an index out of bounds, a missing map key).         *)
(***************************************************************************)
EXTENDS Integers, Sequences, FiniteSets, TLC

\* ------------------------------------------------------------------ bounds
\* sequence numbers drawn for a query: 0..MaxSequence
MaxSequence == 1
\* guardian signatures in a generated VAA: 0..MaxSigs
MaxSigs == 1
\* VAA version bytes drawn: 0..MaxVersion
MaxVersion == 2
\* payload lengths drawn around each layout's exact length: exact-MaxSlack..exact+MaxSlack
MaxSlack == 1
\* byte lengths of the hex emitter texts drawn around 32: 32-MaxOver..32+MaxOver
MaxOver == 1

\* ------------------------------------------------------------- outcomes
Ok(v) == [tag |-> "Ok", val |-> v]
Err(e) == [tag |-> "Err", val |-> e]
Panic(m) == [tag |-> "Panic", val |-> m]
None == [tag |-> "None", val |-> <<>>]

\* ------------------------------------------------------- text and bytes
Repeat(x, n) == [i \in 1..n |-> x]

HexDigits == <<"0","1","2","3","4","5","6","7","8","9","a","b","c","d","e","f">>
UpperHex == <<"A","B","C","D","E","F">>

\* value of a hex digit, -1 for any other character (hex::decode's val())
HexValue(c) ==
    IF \E i \in 1..16 : HexDigits[i] = c
    THEN (CHOOSE i \in 1..16 : HexDigits[i] = c) - 1
    ELSE IF \E i \in 1..6 : UpperHex[i] = c
         THEN (CHOOSE i \in 1..6 : UpperHex[i] = c) + 9
         ELSE -1

UpperLetters == <<"A","B","C","D","E","F","G","H","I","J","K","L","M",
                  "N","O","P","Q","R","S","T","U","V","W","X","Y","Z">>
LowerLetters == <<"a","b","c","d","e","f","g","h","i","j","k","l","m",
                  "n","o","p","q","r","s","t","u","v","w","x","y","z">>

\* str::to_lowercase, on the ASCII text this program handles
UpperSet == {UpperLetters[k] : k \in 1..26}
to_lowercase(s) ==
    [i \in 1..Len(s) |->
        IF s[i] \in UpperSet
        THEN LowerLetters[CHOOSE k \in 1..26 : UpperLetters[k] = s[i]]
        ELSE s[i]]

\* hex::encode: two lowercase digits per byte, high nibble first
hex_encode(b) ==
    [i \in 1..(2 * Len(b)) |->
        IF i % 2 = 1 THEN HexDigits[(b[(i + 1) \div 2] \div 16) + 1]
                     ELSE HexDigits[(b[i \div 2] % 16) + 1]]

\* hex::decode: odd length and non-hex characters are errors
hex_decode(s) ==
    IF Len(s) % 2 # 0 THEN Err("OddLength")
    ELSE IF \E i \in 1..Len(s) : HexValue(s[i]) = -1 THEN Err("InvalidHexCharacter")
    ELSE Ok([i \in 1..(Len(s) \div 2) |->
                16 * HexValue(s[2 * i - 1]) + HexValue(s[2 * i])])

\* format!("{:0>64}", s): left-pad with '0' to width 64, longer text unchanged
PadWidth == 64
pad_left_zeros(s) ==
    IF Len(s) >= PadWidth THEN s ELSE Repeat("0", PadWidth - Len(s)) \o s

\* hextobytes: an optional 0x prefix is dropped, hex errors become CooError::HexError
hextobytes(s) ==
    LET t == IF Len(s) >= 2 /\ s[1] = "0" /\ s[2] = "x" THEN SubSeq(s, 3, Len(s)) ELSE s
        r == hex_decode(t)
    IN IF r.tag = "Ok" THEN r ELSE Err("HexError")

\* decimal text of a natural number (Display for u16 / u64)
RECURSIVE Decimal(_)
Decimal(n) == IF n < 10 THEN <<HexDigits[n + 1]>>
              ELSE Decimal(n \div 10) \o <<HexDigits[(n % 10) + 1]>>

\* ------------------------------------------------------------ chains
\* wormhole_sdk::Chain wrapped as CooChain::Inner; n carries Unknown's id
Chain(name) == [name |-> name, n |-> 0]
UnknownChain(n) == [name |-> "Unknown", n |-> n]
ChainNames == <<"Any", "Solana", "Ethereum", "Terra", "Bsc", "Polygon", "Avalanche">>

\* impl From<u16> for CooChain
chain_from_u16(c) ==
    IF c < Len(ChainNames) THEN Chain(ChainNames[c + 1]) ELSE UnknownChain(c)

\* impl From<CooChain> for u16
chain_to_u16(c) ==
    IF c.name = "Unknown" THEN c.n
    ELSE (CHOOSE i \in 1..Len(ChainNames) : ChainNames[i] = c.name) - 1

\* ------------------------------------------------------------ emitters
AddressLen == 32
Role(kind) == [kind |-> kind, addr |-> <<>>]
Address(a) == [kind |-> "Address", addr |-> a]
Unset == Role("Unset")
CoreBridge == Role("CoreBridge")
TokenBridge == Role("TokenBridge")
NftBridge == Role("NftBridge")
BridgeRoles == {CoreBridge, TokenBridge, NftBridge}

CoreText == <<"c","o","r","e">>
TokenText == <<"t","o","k","e","n">>
NftText == <<"n","f","t">>

\* emitter_from_str with the decoded bytes copied to the front of the buffer
\* (left-aligned, zeros after them)
emitter_from_str_left_aligned(s) ==
    IF s = <<>> THEN Ok(Unset)
    ELSE IF s = CoreText THEN Ok(CoreBridge)
    ELSE IF s = TokenText THEN Ok(TokenBridge)
    ELSE IF s = NftText THEN Ok(NftBridge)
    ELSE LET decoded == hextobytes(s)
         IN IF decoded.tag # "Ok" THEN Panic("unwrap on Err")
            ELSE IF Len(decoded.val) > AddressLen THEN Panic("subtract with overflow")
            ELSE Ok(Address(decoded.val \o Repeat(0, AddressLen - Len(decoded.val))))

\* impl From<&str> for EmitterType: hextobytes(s).unwrap() panics on text that is
\* not hex, and 32 - decoded.len() on more than 32 bytes (overflow check, or the
\* wrapped index out of the array's range)
emitter_from_str(s) ==
    IF s = <<>> THEN Ok(Unset)
    ELSE IF s = CoreText THEN Ok(CoreBridge)
    ELSE IF s = TokenText THEN Ok(TokenBridge)
    ELSE IF s = NftText THEN Ok(NftBridge)
    ELSE LET decoded == hextobytes(s)
         IN IF decoded.tag # "Ok" THEN Panic("unwrap on Err")
            ELSE IF Len(decoded.val) > AddressLen THEN Panic("subtract with overflow")
            ELSE Ok(Address(Repeat(0, AddressLen - Len(decoded.val)) \o decoded.val))

EthCore == <<"9","8","f","3","c","9","e","6","E","3","f","A","c","e","3","6","b","A","A","d","0","5","F","E","0","9","d","3","7","5","E","f","1","4","6","4","2","8","8","B">>
EthToken == <<"3","e","e","1","8","B","2","2","1","4","A","F","F","9","7","0","0","0","D","9","7","4","c","f","6","4","7","E","7","C","3","4","7","E","8","f","a","5","8","5">>
EthNft == <<"6","F","F","d","7","E","d","E","6","2","3","2","8","b","3","A","f","3","8","F","C","D","6","1","4","6","1","B","b","f","c","5","2","F","5","6","5","1","f","E">>
AvaxCore == <<"5","4","a","8","e","5","f","9","c","4","C","b","A","0","8","F","9","9","4","3","9","6","5","8","5","9","F","6","c","3","4","e","A","F","0","3","E","2","6","c">>
AvaxToken == <<"e","0","8","2","f","0","6","f","f","6","5","7","d","9","4","3","1","0","c","b","8","c","e","8","b","0","d","9","a","0","4","5","4","1","d","8","0","5","2">>
AvaxNft == <<"f","7","B","6","7","3","7","C","a","9","c","4","e","0","8","a","E","5","7","3","F","7","5","A","9","7","B","7","3","D","7","a","8","1","3","f","5","D","e","5">>

\* EMITTERS with the Ethereum token bridge's address pasted into the Avalanche
\* NFT bridge's row
EMITTERS_pasted_address ==
    (<<Chain("Ethereum"), CoreBridge>> :> EthCore) @@
    (<<Chain("Ethereum"), TokenBridge>> :> EthToken) @@
    (<<Chain("Ethereum"), NftBridge>> :> EthNft) @@
    (<<Chain("Avalanche"), CoreBridge>> :> AvaxCore) @@
    (<<Chain("Avalanche"), TokenBridge>> :> AvaxToken) @@
    (<<Chain("Avalanche"), NftBridge>> :> EthToken)

\* the static table of known deployments, keyed by (chain, role)
EMITTERS ==
    (<<Chain("Ethereum"), CoreBridge>> :> EthCore) @@
    (<<Chain("Ethereum"), TokenBridge>> :> EthToken) @@
    (<<Chain("Ethereum"), NftBridge>> :> EthNft) @@
    (<<Chain("Avalanche"), CoreBridge>> :> AvaxCore) @@
    (<<Chain("Avalanche"), TokenBridge>> :> AvaxToken) @@
    (<<Chain("Avalanche"), NftBridge>> :> AvaxNft)

GUARDIAN_URL == <<"h","t","t","p","s",":","/","/","w","o","r","m","h","o","l","e","-","v","2","-","m","a","i","n","n","e","t","-","a","p","i",".","c","e","r","t","u","s",".","o","n","e","/">>

\* resolve_emitter_address: EMITTERS[&key] panics on a missing key
resolve_emitter_address(chain, emitter) ==
    IF emitter.kind = "Unset" THEN Err("ParseError")
    ELSE IF emitter.kind = "Address" THEN Ok(hex_encode(emitter.addr))
    ELSE IF <<chain, emitter>> \notin DOMAIN EMITTERS THEN Panic("key not found")
    ELSE LET contract_string == EMITTERS[<<chain, emitter>>]
             contract_address == hextobytes(contract_string)
         IN IF contract_address.tag # "Ok" THEN contract_address
            ELSE Ok(pad_left_zeros(hex_encode(contract_address.val)))

\* Url::join of a relative path: the base's text after its last '/' is replaced
url_join(base, path) ==
    LET slashes == {i \in 1..Len(base) : base[i] = "/"}
        last == CHOOSE i \in slashes : \A j \in slashes : j <= i
    IN SubSeq(base, 1, last) \o path

QueryPrefix == <<"v","1","/","s","i","g","n","e","d","_","v","a","a","/">>

\* get_query_url
get_query_url(chain, emitter, seq, guardian_url) ==
    LET emitter_contract == resolve_emitter_address(chain, emitter)
    IN IF emitter_contract.tag # "Ok" THEN emitter_contract
       ELSE Ok(url_join(guardian_url,
                 QueryPrefix \o Decimal(chain_to_u16(chain)) \o <<"/">>
                 \o emitter_contract.val \o <<"/">> \o Decimal(seq)))

\* ------------------------------------------------------------ VAA wire format
\* big-endian unsigned integer in the k bytes of b starting at i
RECURSIVE BigEndian(_, _, _)
BigEndian(b, i, k) ==
    IF k = 0 THEN 0 ELSE BigEndian(b, i, k - 1) * 256 + b[i + k - 1]

SigLen == 66
HeaderLen == 6
BodyLen == 51

\* parse_vaa: serde_wormhole::from_slice into wormhole_sdk::Vaa<&RawMessage>;
\* the payload is every byte after the body's fixed fields
parse_vaa(b) ==
    IF Len(b) < HeaderLen THEN Err("SerdeWormholeError")
    ELSE LET n == b[6]
             o == HeaderLen + SigLen * n + 1
         IN IF Len(b) < HeaderLen + SigLen * n + BodyLen THEN Err("SerdeWormholeError")
            ELSE Ok([version |-> b[1],
                     guardian_set_index |-> BigEndian(b, 2, 4),
                     signatures |-> [i \in 1..n |->
                         [index |-> b[HeaderLen + SigLen * (i - 1) + 1],
                          signature |-> SubSeq(b, HeaderLen + SigLen * (i - 1) + 2,
                                                  HeaderLen + SigLen * i)]],
                     timestamp |-> BigEndian(b, o, 4),
                     nonce |-> BigEndian(b, o + 4, 4),
                     emitter_chain |-> chain_from_u16(BigEndian(b, o + 8, 2)),
                     emitter_address |-> SubSeq(b, o + 10, o + 41),
                     sequence |-> BigEndian(b, o + 42, 8),
                     consistency_level |-> b[o + 50],
                     payload |-> SubSeq(b, o + 51, Len(b))])

\* ------------------------------------------------------------ payload decoders
TransferLen == 133
AssetMetaLen == 100
NftFixedLen == 166
NftUriLenAt == 132

\* serde_wormhole::from_slice into wormhole_sdk::token::Message: the variant is
\* chosen by the payload's first byte; short input and trailing bytes are errors
token_message_from_slice(p) ==
    IF Len(p) = 0 THEN Err("SerdeWormholeError")
    ELSE IF p[1] = 1 /\ Len(p) = TransferLen
         THEN Ok([variant |-> "Transfer", fields |-> SubSeq(p, 2, Len(p))])
    ELSE IF p[1] = 2 /\ Len(p) = AssetMetaLen
         THEN Ok([variant |-> "AssetMeta", fields |-> SubSeq(p, 2, Len(p))])
    ELSE IF p[1] = 3 /\ Len(p) >= TransferLen
         THEN Ok([variant |-> "TransferWithPayload", fields |-> SubSeq(p, 2, Len(p))])
    ELSE Err("SerdeWormholeError")

\* serde_wormhole::from_slice into wormhole_sdk::nft::Message
nft_message_from_slice(p) ==
    IF Len(p) >= NftUriLenAt /\ p[1] = 1 /\ Len(p) = NftFixedLen + p[NftUriLenAt]
    THEN Ok([variant |-> "NftTransfer", fields |-> SubSeq(p, 2, Len(p))])
    ELSE Err("SerdeWormholeError")

\* decode_wormhole_token: the decode result is unwrapped inside the function
decode_wormhole_token(v) ==
    LET message == token_message_from_slice(v.payload)
    IN IF message.tag = "Ok" THEN Ok(message.val) ELSE Panic("unwrap on Err")

\* decode_wormhole_nft
decode_wormhole_nft(v) ==
    LET message == nft_message_from_slice(v.payload)
    IN IF message.tag = "Ok" THEN Ok(message.val) ELSE Panic("unwrap on Err")

\* ------------------------------------------------------------ payload inference
PayloadTypes == {"SmartInfer", "RawBytes", "WormholeTokenTransfer",
                 "WormholeTokenTransferPayload", "WormholeNftTransfer", "WormholeAssetMeta"}

\* the text SmartInfer compares: vaa.emitter_address.to_string().to_lowercase()
emitter_address_text(v) == to_lowercase(hex_encode(v.emitter_address))

\* the registry's side of the comparison: format!("{:0>64}", v).to_lowercase()
map_entry(k) == to_lowercase(pad_left_zeros(EMITTERS[k]))

\* map_entry of every registry entry
MapEntries == [k \in DOMAIN EMITTERS |-> map_entry(k)]

\* the keys EMITTERS.iter().find_map can return: the first match in the hash map's
\* iteration order, which is any of the matching entries
matching_keys(v) ==
    LET emitter_address == emitter_address_text(v)
    IN {k \in DOMAIN EMITTERS : emitter_address = MapEntries[k]}

\* infer_from_key with the token bridge's default arm taken for a transfer
infer_from_key_default_transfer(key, p) ==
    IF key.tag = "None" THEN Ok("RawBytes")
    ELSE LET emitter == key.val[2]
         IN IF emitter.kind = "TokenBridge"
            THEN IF Len(p) = 0 THEN Panic("index out of bounds")
                 ELSE IF p[1] = 2 THEN Ok("WormholeAssetMeta")
                 ELSE IF p[1] = 3 THEN Ok("WormholeTokenTransferPayload")
                 ELSE Ok("WormholeTokenTransfer")
            ELSE IF emitter.kind = "NftBridge"
            THEN IF Len(p) = 0 THEN Panic("index out of bounds")
                 ELSE IF p[1] = 1 THEN Ok("WormholeNftTransfer")
                 ELSE Ok("RawBytes")
            ELSE IF emitter.kind = "CoreBridge" THEN Ok("RawBytes")
            ELSE Panic("unreachable")

\* the match on the found key: payload[0] is an indexing that panics on an empty payload
infer_from_key(key, p) ==
    IF key.tag = "None" THEN Ok("RawBytes")
    ELSE LET emitter == key.val[2]
         IN IF emitter.kind = "TokenBridge"
            THEN IF Len(p) = 0 THEN Panic("index out of bounds")
                 ELSE IF p[1] = 1 THEN Ok("WormholeTokenTransfer")
                 ELSE IF p[1] = 2 THEN Ok("WormholeAssetMeta")
                 ELSE IF p[1] = 3 THEN Ok("WormholeTokenTransferPayload")
                 ELSE Ok("RawBytes")
            ELSE IF emitter.kind = "NftBridge"
            THEN IF Len(p) = 0 THEN Panic("index out of bounds")
                 ELSE IF p[1] = 1 THEN Ok("WormholeNftTransfer")
                 ELSE Ok("RawBytes")
            ELSE IF emitter.kind = "CoreBridge" THEN Ok("RawBytes")
            ELSE Panic("unreachable")

\* payload_response with the RawBytes arm dropping the payload's first byte
payload_response_skips_first(payload_type, v) ==
    IF payload_type = "RawBytes"
    THEN Ok([tag |-> "RawBytes", msg |-> SubSeq(v.payload, 2, Len(v.payload))])
    ELSE LET message == IF payload_type = "WormholeNftTransfer"
                        THEN decode_wormhole_nft(v) ELSE decode_wormhole_token(v)
         IN IF message.tag = "Ok" THEN Ok([tag |-> payload_type, msg |-> message.val])
            ELSE message

\* the match on payload_type that builds the PayloadResponse
payload_response(payload_type, v) ==
    IF payload_type = "RawBytes" THEN Ok([tag |-> "RawBytes", msg |-> v.payload])
    ELSE IF payload_type \in {"WormholeTokenTransfer", "WormholeAssetMeta",
                              "WormholeTokenTransferPayload"}
    THEN LET message == decode_wormhole_token(v)
         IN IF message.tag = "Ok" THEN Ok([tag |-> payload_type, msg |-> message.val])
            ELSE message
    ELSE IF payload_type = "WormholeNftTransfer"
    THEN LET message == decode_wormhole_nft(v)
         IN IF message.tag = "Ok" THEN Ok([tag |-> payload_type, msg |-> message.val])
            ELSE message
    ELSE Panic("unreachable")

\* ------------------------------------------------------------ command-line inputs
\* k big-endian bytes of n
RECURSIVE BytesBE(_, _)
BytesBE(n, k) == IF k = 0 THEN <<>> ELSE BytesBE(n \div 256, k - 1) \o <<n % 256>>

\* a VAA on the wire, as a guardian serializes it
encode_vaa(version, nsigs, chain_id, address, p) ==
    <<version>> \o BytesBE(3, 4) \o <<nsigs>>
    \o [i \in 1..(SigLen * nsigs) |-> IF i % SigLen = 1 THEN (i \div SigLen) ELSE 0]
    \o BytesBE(1, 4) \o BytesBE(0, 4) \o BytesBE(chain_id, 2) \o address
    \o BytesBE(1, 8) \o <<15>> \o p

\* the 32 bytes a registry entry's contract occupies as a VAA emitter address
entry_address(k) == hex_decode(map_entry(k)).val

UnknownAddress == [i \in 1..AddressLen |-> IF i = AddressLen THEN 1 ELSE 0]

EmitterAddresses == {entry_address(k) : k \in DOMAIN EMITTERS} \cup {UnknownAddress}

\* emitter chain ids on the wire: Solana, Ethereum, Avalanche
EmitterChainIds == {1, 2, 6}

make_payload(first, len) == [i \in 1..len |-> IF i = 1 THEN first ELSE 0]

Discriminants == {1, 2, 3, 99}

PayloadLens ==
    {1} \cup {exact + d - MaxSlack :
                exact \in {AssetMetaLen, TransferLen, NftFixedLen}, d \in 0..(2 * MaxSlack)}

Payloads == {<<>>} \cup {make_payload(f, l) : f \in Discriminants, l \in PayloadLens}

\* VAAs from every emitter chain and address, at version 1 and the largest version,
\* unsigned and with the most signatures, for SmartInfer
WholeVaas ==
    {encode_vaa(v, n, c, a, p) :
        v \in {1, MaxVersion}, n \in {0, MaxSigs}, c \in EmitterChainIds,
        a \in EmitterAddresses, p \in Payloads}

\* VAAs from one emitter, for the payload types given on the command line, which
\* never look at the emitter
OneEmitterVaas ==
    {encode_vaa(v, n, 2, UnknownAddress, p) :
        v \in 0..MaxVersion, n \in 0..MaxSigs, p \in Payloads}

\* buffers that end inside the header, the signatures or the body
ShortVaas ==
    LET whole == encode_vaa(1, 1, 2, UnknownAddress, <<>>)
    IN {SubSeq(whole, 1, l) : l \in {0, HeaderLen - 1, HeaderLen, HeaderLen + SigLen, Len(whole) - 1}}

\* what decoding the data argument (base64, base58, hex, file) gives
DataInputs(vaas) == {Ok(b) : b \in vaas \cup ShortVaas} \cup {Err("DecodeError")}

OtherGuardianUrl == <<"h","t","t","p",":","/","/","g","/","a","p","i">>

QueryChains == {Chain("Solana"), Chain("Ethereum"), Chain("Avalanche")}
QueryEmitters == {Unset} \cup BridgeRoles \cup {Address(UnknownAddress)}

\* the text that names an emitter on the command line
emitter_text(e) ==
    IF e.kind = "CoreBridge" THEN CoreText
    ELSE IF e.kind = "TokenBridge" THEN TokenText
    ELSE IF e.kind = "NftBridge" THEN NftText
    ELSE IF e.kind = "Address" THEN hex_encode(e.addr)
    ELSE <<>>

\* 2n hex digits, in lowercase and in uppercase
hex_text(n) == [i \in 1..(2 * n) |-> HexDigits[((7 * i) % 16) + 1]]
upper_hex_text(n) ==
    [i \in 1..(2 * n) |->
        LET d == (7 * i) % 16 IN IF d >= 10 THEN UpperHex[d - 9] ELSE HexDigits[d + 1]]

HexByteLens == {0, 1, 20} \cup ((AddressLen - MaxOver)..(AddressLen + MaxOver))

\* texts that are neither a role nor hex: odd length, other characters, 0X, Core
BadEmitterTexts ==
    {<<"a","b","c">>, <<"x","y">>, <<"0","x","z","z">>, <<"0","X","1","2">>,
     <<"C","o","r","e">>, <<"0","x","a">>}

EmitterTexts ==
    {emitter_text(e) : e \in QueryEmitters}
    \cup {hex_text(n) : n \in HexByteLens}
    \cup {<<"0","x">> \o hex_text(n) : n \in HexByteLens}
    \cup {upper_hex_text(n) : n \in HexByteLens}
    \cup BadEmitterTexts

NoArgs == [command |-> "", chain |-> Chain("Any"), emitter_text |-> <<>>,
           emitter |-> Unset, sequence |-> 0,
           guardian_url |-> <<>>, data |-> None, payload_type |-> "SmartInfer"]

QueryArgs ==
    {[NoArgs EXCEPT !.command = "query", !.chain = c, !.emitter_text = t, !.sequence = q,
                    !.guardian_url = u] :
        c \in QueryChains, t \in EmitterTexts, q \in 0..MaxSequence,
        u \in {GUARDIAN_URL, OtherGuardianUrl}}

DecodeArgs ==
    {[NoArgs EXCEPT !.command = "decode", !.data = d] : d \in DataInputs(WholeVaas)}
    \cup
    {[NoArgs EXCEPT !.command = "decode", !.data = d, !.payload_type = t] :
        d \in DataInputs(OneEmitterVaas), t \in PayloadTypes \ {"SmartInfer"}}

\* what the guardian's HTTP endpoint can answer
GuardianResponses ==
    {Ok(encode_vaa(1, 0, 2, UnknownAddress, <<>>)), Err("ReqwestError"),
     Err("SerdeJsonError"), Err("ParseError"), Err("Base64Error")}

\* ------------------------------------------------------------ state
VARIABLES
    pc,               \* the command's position: the next step, "done" or "panicked"
    args,             \* the command line, its emitter parsed by ParseCli
    emitter_type,     \* outcome of the emitter text's conversion to EmitterType
    emitter_contract, \* outcome of resolve_emitter_address
    query_url,        \* outcome of get_query_url
    vaa_bytes,        \* the VAA's bytes, fetched or read
    vaa,              \* outcome of parse_vaa
    key,              \* the registry key SmartInfer found
    payload_type,     \* outcome of the payload type selection
    payload,          \* outcome of building the PayloadResponse
    output,           \* lines printed to stdout, in order
    cache,            \* files written to the cache directory
    failed_at         \* the step that aborted the process, "" while none has

vars == <<pc, args, emitter_type, emitter_contract, query_url, vaa_bytes, vaa, key, payload_type,
          payload, output, cache, failed_at>>

Init ==
    /\ args \in QueryArgs \cup DecodeArgs
    /\ pc = IF args.command = "query" THEN "parse_cli" ELSE "read_data"
    /\ emitter_type = None
    /\ emitter_contract = None
    /\ query_url = None
    /\ vaa_bytes = <<>>
    /\ vaa = None
    /\ key = None
    /\ payload_type = None
    /\ payload = None
    /\ output = <<>>
    /\ cache = {}
    /\ failed_at = ""

\* panic!: the process stops where it is, what was printed stays printed
Abort(step) ==
    /\ pc' = "panicked"
    /\ failed_at' = step

\* Cli::parse: the emitter argument converted to EmitterType
ParseCli ==
    /\ pc = "parse_cli"
    /\ emitter_type' = emitter_from_str(args.emitter_text)
    /\ IF emitter_type'.tag = "Ok"
       THEN /\ args' = [args EXCEPT !.emitter = emitter_type'.val]
            /\ pc' = "query_guardian"
            /\ UNCHANGED failed_at
       ELSE /\ Abort("parse_cli")
            /\ UNCHANGED args
    /\ UNCHANGED <<emitter_contract, query_url, vaa_bytes, vaa, key, payload_type,
                   payload, output, cache>>

\* cli_vaa_query up to query_guardian(...).unwrap()
QueryGuardian ==
    /\ pc = "query_guardian"
    /\ emitter_contract' = resolve_emitter_address(args.chain, args.emitter)
    /\ query_url' = get_query_url(args.chain, args.emitter, args.sequence, args.guardian_url)
    /\ IF query_url'.tag # "Ok"
       THEN /\ Abort("query_guardian")
            /\ UNCHANGED <<vaa_bytes, output>>
       ELSE /\ output' = Append(output, "querying guardian")
            /\ \E response \in GuardianResponses :
                 IF response.tag = "Ok"
                 THEN /\ vaa_bytes' = response.val
                      /\ pc' = "save_vaa"
                      /\ UNCHANGED failed_at
                 ELSE /\ Abort("query_guardian")
                      /\ UNCHANGED vaa_bytes
    /\ UNCHANGED <<args, emitter_type, vaa, key, payload_type, payload, cache>>

\* cli_vaa_query after the fetch: the file name, the cache write, the report
SaveVaa ==
    /\ pc = "save_vaa"
    /\ LET emitter_address == resolve_emitter_address(args.chain, args.emitter)
       IN /\ emitter_contract' = emitter_address
          /\ \E created \in BOOLEAN :
               IF emitter_address.tag = "Ok" /\ created
               THEN /\ cache' = cache \cup
                         {Decimal(chain_to_u16(args.chain)) \o <<"-">> \o emitter_address.val
                          \o <<"-">> \o Decimal(args.sequence) \o <<".","v","a","a">>}
                    /\ output' = output \o <<"saved", "vaa data">>
                    /\ pc' = "done"
                    /\ UNCHANGED failed_at
               ELSE /\ Abort("save_vaa")
                    /\ UNCHANGED <<cache, output>>
    /\ UNCHANGED <<args, emitter_type, query_url, vaa_bytes, vaa, key, payload_type, payload>>

\* cli_vaa_decode: the data argument decoded to bytes, unwrapped
ReadData ==
    /\ pc = "read_data"
    /\ IF args.data.tag = "Ok"
       THEN /\ vaa_bytes' = args.data.val
            /\ pc' = "parse_vaa"
            /\ UNCHANGED failed_at
       ELSE /\ Abort("read_data")
            /\ UNCHANGED vaa_bytes
    /\ UNCHANGED <<args, emitter_type, emitter_contract, query_url, vaa, key, payload_type, payload,
                   output, cache>>

\* cli_vaa_decode: parse_vaa(&vaa_bytes).unwrap() and the VAA table printed
ParseVaa ==
    /\ pc = "parse_vaa"
    /\ vaa' = parse_vaa(vaa_bytes)
    /\ IF vaa'.tag = "Ok"
       THEN /\ output' = Append(output, "VAA Information")
            /\ pc' = "infer"
            /\ UNCHANGED failed_at
       ELSE /\ Abort("parse_vaa")
            /\ UNCHANGED output
    /\ UNCHANGED <<args, emitter_type, emitter_contract, query_url, vaa_bytes, key, payload_type,
                   payload, cache>>

\* cli_vaa_decode: the payload type, inferred for SmartInfer, else as given
InferPayloadType ==
    /\ pc = "infer"
    /\ IF args.payload_type = "SmartInfer"
       THEN /\ key' \in IF matching_keys(vaa.val) = {} THEN {None}
                        ELSE {Ok(k) : k \in matching_keys(vaa.val)}
            /\ payload_type' = infer_from_key(key', vaa.val.payload)
       ELSE /\ payload_type' = Ok(args.payload_type)
            /\ UNCHANGED key
    /\ IF payload_type'.tag = "Ok"
       THEN /\ pc' = "decode_payload"
            /\ UNCHANGED failed_at
       ELSE Abort("infer")
    /\ UNCHANGED <<args, emitter_type, emitter_contract, query_url, vaa_bytes, vaa, payload, output,
                   cache>>

\* DecodePayload with the payload heading printed before the decode is unwrapped
DecodePayload_prints_first ==
    /\ pc = "decode_payload"
    /\ payload' = payload_response(payload_type.val, vaa.val)
    /\ output' = Append(output, "Payload")
    /\ IF payload'.tag = "Ok"
       THEN /\ pc' = "done"
            /\ UNCHANGED failed_at
       ELSE Abort("decode_payload")
    /\ UNCHANGED <<args, emitter_type, emitter_contract, query_url, vaa_bytes, vaa, key, payload_type,
                   cache>>

\* cli_vaa_decode: the PayloadResponse built and printed
DecodePayload ==
    /\ pc = "decode_payload"
    /\ payload' = payload_response(payload_type.val, vaa.val)
    /\ IF payload'.tag = "Ok"
       THEN /\ output' = Append(output, "Payload")
            /\ pc' = "done"
            /\ UNCHANGED failed_at
       ELSE /\ Abort("decode_payload")
            /\ UNCHANGED output
    /\ UNCHANGED <<args, emitter_type, emitter_contract, query_url, vaa_bytes, vaa, key, payload_type,
                   cache>>

Next ==
    \/ ParseCli
    \/ QueryGuardian
    \/ SaveVaa
    \/ ReadData
    \/ ParseVaa
    \/ InferPayloadType
    \/ DecodePayload

Spec == Init /\ [][Next]_vars

\* ------------------------------------------------------------ properties
Range(f) == {f[i] : i \in DOMAIN f}
Queried == args.command = "query" /\ pc \notin {"parse_cli", "query_guardian"}
           /\ emitter_type.tag = "Ok"
Registered == <<args.chain, args.emitter>> \in DOMAIN EMITTERS
\* SmartInfer has run on a parsed VAA
Inferred == args.command = "decode" /\ args.payload_type = "SmartInfer"
            /\ vaa.tag = "Ok" /\ payload_type.tag # "None"
\* the roles of the registry entries whose padded lowercase address is the VAA's emitter
MatchedRoles == {k[2].kind : k \in matching_keys(vaa.val)}
\* the payload bytes of the input buffer: what follows header, signatures and body
WirePayload ==
    SubSeq(vaa_bytes, HeaderLen + SigLen * vaa_bytes[6] + BodyLen + 1, Len(vaa_bytes))

\* C1: for every (chain, role) of the registry, resolve_emitter_address succeeds with
\* 64 lowercase hex characters: 24 zeros, then the entry's 20-byte contract address.
C1_RegisteredResolves ==
    (Queried /\ Registered) =>
        /\ emitter_contract.tag = "Ok"
        /\ Len(emitter_contract.val) = 64
        /\ emitter_contract.val = to_lowercase(emitter_contract.val)
        /\ \A i \in 1..24 : emitter_contract.val[i] = "0"
        /\ LET entry == to_lowercase(EMITTERS[<<args.chain, args.emitter>>])
           IN SubSeq(emitter_contract.val, 25, 64) = Repeat("0", 40 - Len(entry)) \o entry

AvalancheTokenBridgeUrl == GUARDIAN_URL \o QueryPrefix \o <<"6","/">> \o <<"0","0","0","0","0","0","0","0","0","0","0","0","0","0","0","0","0","0","0","0","0","0","0","0","0","e","0","8","2","f","0","6","f","f","6","5","7","d","9","4","3","1","0","c","b","8","c","e","8","b","0","d","9","a","0","4","5","4","1","d","8","0","5","2">> \o <<"/","1">>

\* C2: for every registry entry, sequence number and base URL ending in '/',
\* get_query_url is base + v1/signed_vaa/{chain id}/{64-hex padded address}/{sequence};
\* for (Avalanche, TokenBridge, 1) it is the URL of test_get_query_url.
C2_QueryUrl ==
    (Queried /\ Registered /\ args.guardian_url[Len(args.guardian_url)] = "/") =>
        /\ query_url.tag = "Ok"
        /\ query_url.val =
              args.guardian_url \o QueryPrefix \o Decimal(chain_to_u16(args.chain))
              \o <<"/">> \o map_entry(<<args.chain, args.emitter>>)
              \o <<"/">> \o Decimal(args.sequence)
        /\ (args.chain = Chain("Avalanche") /\ args.emitter = TokenBridge
            /\ args.sequence = 1 /\ args.guardian_url = GUARDIAN_URL)
              => query_url.val = AvalancheTokenBridgeUrl

\* C3: for a bridge role whose (chain, role) is not in the registry,
\* resolve_emitter_address returns an error value: no abort, no address.
C3_UnregisteredIsError ==
    (Queried /\ args.emitter \in BridgeRoles /\ ~Registered) =>
        emitter_contract.tag = "Err"

\* C4: SmartInfer treats the emitter as a known deployment only when chain and padded
\* address both equal a registry entry; otherwise the payload is RawBytes.
C4_ChainAndAddressMatch ==
    (Inferred /\ vaa.val.version = 1 /\ payload_type.tag = "Ok"
     /\ ~\E k \in DOMAIN EMITTERS :
            k[1] = vaa.val.emitter_chain /\ map_entry(k) = emitter_address_text(vaa.val))
        => payload_type.val = "RawBytes"

\* C5: for a non-empty payload, a TokenBridge emitter gives TokenTransfer, AssetMeta,
\* TokenTransferWithPayload for first byte 1, 2, 3 and RawBytes for any other; an
\* NftBridge emitter gives NftTransfer for 1 and RawBytes otherwise; never an error.
C5_Discriminant ==
    (Inferred /\ Len(WirePayload) > 0) =>
        LET first == WirePayload[1]
        IN /\ "TokenBridge" \in MatchedRoles =>
                /\ payload_type.tag = "Ok"
                /\ payload_type.val =
                     CASE first = 1 -> "WormholeTokenTransfer"
                       [] first = 2 -> "WormholeAssetMeta"
                       [] first = 3 -> "WormholeTokenTransferPayload"
                       [] OTHER -> "RawBytes"
           /\ "NftBridge" \in MatchedRoles =>
                /\ payload_type.tag = "Ok"
                /\ payload_type.val =
                     IF first = 1 THEN "WormholeNftTransfer" ELSE "RawBytes"

\* C5 witness: a TokenBridge emitter's payload with first byte 99 inferred as RawBytes
C5_Witness ==
    /\ Inferred /\ "TokenBridge" \in MatchedRoles
    /\ Len(WirePayload) > 0 /\ WirePayload[1] = 99
    /\ payload_type.tag = "Ok" /\ payload_type.val = "RawBytes"

\* C6: with a TokenBridge or NftBridge emitter and an empty payload, classification
\* fails with an explicit EmptyPayload error result and does not abort.
C6_EmptyPayloadIsError ==
    (Inferred /\ vaa.val.version = 1
     /\ \E k \in matching_keys(vaa.val) :
            k[1] = vaa.val.emitter_chain /\ k[2] \in {TokenBridge, NftBridge}
     /\ Len(WirePayload) = 0) =>
        /\ payload_type.tag = "Err"
        /\ failed_at # "infer"

\* C7: with no registry match, or a CoreBridge match, inference gives RawBytes for
\* every payload, the empty one included, no step fails, and the RawBytes result
\* carries the payload bytes unchanged.
C7_RawBytesFallback ==
    (Inferred /\ MatchedRoles \subseteq {"CoreBridge"}) =>
        /\ payload_type.tag = "Ok" /\ payload_type.val = "RawBytes"
        /\ pc \in {"decode_payload", "done"}
        /\ pc = "done" =>
             /\ payload.tag = "Ok" /\ payload.val.tag = "RawBytes"
             /\ payload.val.msg = WirePayload

\* C7 witness: a CoreBridge emitter's empty payload decoded as empty RawBytes
C7_Witness ==
    /\ Inferred /\ MatchedRoles = {"CoreBridge"} /\ Len(WirePayload) = 0
    /\ pc = "done" /\ payload.tag = "Ok" /\ payload.val.tag = "RawBytes"
    /\ payload.val.msg = <<>>

\* C8: decoding undecodable payload bytes as a token or NFT message (the payload
\* type given on the command line) returns an error value from
\* decode_wormhole_token / decode_wormhole_nft, never an abort.
C8_DecodeReturnsErr ==
    (args.command = "decode" /\ args.payload_type # "SmartInfer"
     /\ payload.tag # "None" /\ vaa.val.version = 1) =>
        /\ (payload_type.val \in {"WormholeTokenTransfer", "WormholeAssetMeta",
                                  "WormholeTokenTransferPayload"}
            /\ token_message_from_slice(WirePayload).tag = "Err") => payload.tag = "Err"
        /\ (payload_type.val = "WormholeNftTransfer"
            /\ nft_message_from_slice(WirePayload).tag = "Err") => payload.tag = "Err"

\* C9: if a stage of decoding a VAA fails (the read, the parse, the payload decode of
\* a version 1 VAA as the type given on the command line), nothing for that VAA was
\* emitted before the failure.
C9_AllOrNothing ==
    (args.command = "decode" /\ pc = "panicked" /\ args.payload_type # "SmartInfer"
     /\ failed_at \in {"read_data", "parse_vaa", "decode_payload"}
     /\ (vaa.tag = "Ok" => vaa.val.version = 1)) => output = <<>>

\* C9 as amended: the payload result is emitted only once every stage has succeeded
\* and nothing is emitted when the read or the parse fails; the VAA table is emitted
\* as soon as the parse succeeds, so a failed classification or payload decode
\* leaves exactly the VAA table emitted.
C9_PayloadAllOrNothing ==
    args.command = "decode" =>
        /\ "Payload" \in Range(output) =>
             /\ pc = "done" /\ vaa.tag = "Ok" /\ payload_type.tag = "Ok"
             /\ payload.tag = "Ok"
        /\ failed_at \in {"read_data", "parse_vaa"} => output = <<>>
        /\ failed_at \in {"infer", "decode_payload"} => output = <<"VAA Information">>
        /\ pc = "done" => output = <<"VAA Information", "Payload">>

\* C9 witness: the payload decode failed after the VAA table was printed
C9_Witness ==
    /\ args.command = "decode" /\ failed_at = "decode_payload"
    /\ output = <<"VAA Information">> /\ payload.tag # "Ok"

\* C10: parse_vaa on a buffer whose version byte is not 1 returns an error; every
\* Vaa it produces has version 1.
C10_VersionOne ==
    (args.command = "decode" /\ vaa.tag # "None") =>
        /\ (Len(vaa_bytes) >= 1 /\ vaa_bytes[1] # 1) => vaa.tag = "Err"
        /\ vaa.tag = "Ok" => vaa.val.version = 1

\* the emitter text has been converted (or the conversion has aborted)
Converted == args.command = "query" /\ emitter_type.tag # "None"
RoleTexts == {<<>>, CoreText, TokenText, NftText}
\* the emitter text without its optional 0x prefix
HexPart ==
    LET t == args.emitter_text
    IN IF Len(t) >= 2 /\ t[1] = "0" /\ t[2] = "x" THEN SubSeq(t, 3, Len(t)) ELSE t
HexChars == {"0","1","2","3","4","5","6","7","8","9","a","b","c","d","e","f",
             "A","B","C","D","E","F"}
ValidHex == Len(HexPart) % 2 = 0 /\ \A i \in 1..Len(HexPart) : HexPart[i] \in HexChars

\* C11: an emitter text that is none of "", "core", "token", "nft" and is not valid
\* hex (after an optional 0x) fails with a HexDecodeError returned as a result; the
\* conversion to EmitterType never aborts.
C11_BadHexIsError ==
    (Converted /\ args.emitter_text \notin RoleTexts /\ ~ValidHex) =>
        /\ emitter_type.tag = "Err"
        /\ failed_at # "parse_cli"

\* C13: "" is Unset, "core" CoreBridge, "token" TokenBridge, "nft" NftBridge, and any
\* other text that is valid hex of n <= 32 bytes (with or without 0x) is Address(b):
\* b is 32 bytes, its first 32-n are zero and its last n are the decoded bytes in order.
C13_EmitterParsing ==
    Converted =>
        /\ args.emitter_text = <<>> =>
             emitter_type.tag = "Ok" /\ emitter_type.val = Unset
        /\ args.emitter_text = CoreText =>
             emitter_type.tag = "Ok" /\ emitter_type.val = CoreBridge
        /\ args.emitter_text = TokenText =>
             emitter_type.tag = "Ok" /\ emitter_type.val = TokenBridge
        /\ args.emitter_text = NftText =>
             emitter_type.tag = "Ok" /\ emitter_type.val = NftBridge
        /\ (args.emitter_text \notin RoleTexts /\ ValidHex /\ Len(HexPart) \div 2 <= 32) =>
             LET n == Len(HexPart) \div 2
             IN /\ emitter_type.tag = "Ok"
                /\ emitter_type.val.kind = "Address"
                /\ Len(emitter_type.val.addr) = 32
                /\ \A i \in 1..(32 - n) : emitter_type.val.addr[i] = 0
                /\ \A k \in 1..n :
                     emitter_type.val.addr[32 - n + k] =
                        16 * HexValue(HexPart[2 * k - 1]) + HexValue(HexPart[2 * k])

\* C13 witness: a 0x-prefixed 20-byte address parsed into the last 20 of 32 bytes
C13_Witness ==
    /\ Converted /\ Len(args.emitter_text) = 42 /\ args.emitter_text[2] = "x"
    /\ emitter_type.tag = "Ok" /\ emitter_type.val.kind = "Address"
    /\ emitter_type.val.addr[12] = 0 /\ emitter_type.val.addr[13] = 126
    /\ pc = "query_guardian"

\* C12: the inferred payload kind does not depend on the order in which the EMITTERS
\* hash map is iterated: no two registry entries with different roles have the same
\* padded lowercase address, so every entry find_map could return gives the kind
\* that was inferred.
C12_OrderIndependent ==
    /\ \A k1, k2 \in DOMAIN EMITTERS : k1[2] # k2[2] => MapEntries[k1] # MapEntries[k2]
    /\ Inferred =>
         /\ Cardinality(MatchedRoles) <= 1
         /\ \A k \in matching_keys(vaa.val) :
              infer_from_key(Ok(k), WirePayload) = payload_type

\* C12 witness: an NFT bridge emitter's transfer inferred from the one matching entry
C12_Witness ==
    /\ Inferred /\ MatchedRoles = {"NftBridge"} /\ key.tag = "Ok"
    /\ payload_type.tag = "Ok" /\ payload_type.val = "WormholeNftTransfer"

\* C14: for every registry entry, resolve_emitter_address succeeds and returns the
\* padded lowercase text SmartInfer builds for that entry, so a VAA emitted from the
\* resolved address is matched to the entry's role.
C14_ResolverMatchesClassifier ==
    (Queried /\ Registered) =>
        /\ emitter_contract.tag = "Ok"
        /\ emitter_contract.val = map_entry(<<args.chain, args.emitter>>)
        /\ \E a \in EmitterAddresses :
             /\ hex_encode(a) = emitter_contract.val
             /\ args.emitter.kind \in
                  {k[2].kind : k \in matching_keys([emitter_address |-> a])}

\* C15: whenever decoding succeeds, the PayloadResponse's tag names the message it
\* carries: WormholeTokenTransfer a Transfer, WormholeAssetMeta an AssetMeta,
\* WormholeTokenTransferPayload a TransferWithPayload, WormholeNftTransfer an NFT
\* transfer, for inferred and for given payload types.
C15_TagMatchesMessage ==
    (args.command = "decode" /\ payload.tag = "Ok" /\ vaa.val.version = 1
     /\ payload.val.tag # "RawBytes") =>
        payload.val.msg.variant =
            CASE payload.val.tag = "WormholeTokenTransfer" -> "Transfer"
              [] payload.val.tag = "WormholeAssetMeta" -> "AssetMeta"
              [] payload.val.tag = "WormholeTokenTransferPayload" -> "TransferWithPayload"
              [] payload.val.tag = "WormholeNftTransfer" -> "NftTransfer"

====
